---- MODULE Spec2Model ----
(***************************************************************************)
(* Sweep-line triangulation of an x-monotone polygon                       *)
(* (src/triangulation.py): orientation, find_chains and                    *)
(* triangulate_x_monotone, one action per statement group of the code.     *)
(* Indices are Python's (0-based); At(s, k) reads s[k] of a Python list    *)
(* held as a TLA+ sequence.                                                *)
(***************************************************************************)
EXTENDS Integers, Sequences, FiniteSets, TLC

\* ---- bounds of the inputs -------------------------------------------------
\* valid polygons: vertices on the grid 0..MaxX x 0..MaxY, at most MaxN
MaxX == 4
MaxY == 2
MaxN == 6
\* arbitrary point lists: columns 0..AnyMaxX of the rows AnyRows (two rows
\* give left turns, right turns, collinear and repeated points), length
\* 0..AnyMaxN
AnyMaxX == 2
AnyRows == {0, 1}
AnyMaxN == 5

VARIABLES points, pc, left, right, chain, wi, order, i, stack, diagonals,
          iterStack, iterDiags

vars == <<points, pc, left, right, chain, wi, order, i, stack, diagonals,
          iterStack, iterDiags>>

\* ---- data ---------------------------------------------------------------
Point(x, y) == [x |-> x, y |-> y]

At(s, k) == s[k + 1]

\* stack[-1], stack[-2]
Top(s) == s[Len(s)]
SecondFromTop(s) == s[Len(s) - 1]

\* list.pop(): the list without its last element
Pop(s) == SubSeq(s, 1, Len(s) - 1)

\* ---- orientation ----------------------------------------------------------
orientationFlipped(p, q, r) ==
    LET val == (q.x - p.x) * (r.y - p.y) - (q.y - p.y) * (r.x - p.x)
    IN  IF val = 0 THEN 0 ELSE IF val > 0 THEN -1 ELSE 1

orientation(p, q, r) ==
    LET val == (q.x - p.x) * (r.y - p.y) - (q.y - p.y) * (r.x - p.x)
    IN  IF val = 0 THEN 0 ELSE IF val > 0 THEN 1 ELSE -1

\* ---- find_chains ----------------------------------------------------------
\* min(range(n), key=x): the first index of minimum x
ArgMinX(pts) ==
    CHOOSE a \in 0..(Len(pts) - 1) :
        \A b \in 0..(Len(pts) - 1) :
            \/ At(pts, a).x < At(pts, b).x
            \/ At(pts, a).x = At(pts, b).x /\ a <= b

\* max(range(n), key=x): the first index of maximum x
ArgMaxX(pts) ==
    CHOOSE a \in 0..(Len(pts) - 1) :
        \A b \in 0..(Len(pts) - 1) :
            \/ At(pts, a).x > At(pts, b).x
            \/ At(pts, a).x = At(pts, b).x /\ a <= b

\* ---- sweep order ------------------------------------------------------------
\* sorted(range(n), key=(x, -y)) is stable: equal keys keep index order
SweepBefore(pts, a, b) ==
    LET p == At(pts, a)
        q == At(pts, b)
    IN  \/ p.x < q.x
        \/ p.x = q.x /\ -p.y < -q.y
        \/ p.x = q.x /\ -p.y = -q.y /\ a < b

SweepOrder(pts) ==
    LET idx == 0..(Len(pts) - 1)
        rank(a) == Cardinality({b \in idx : SweepBefore(pts, b, a)})
    IN  [k \in 1..Len(pts) |-> CHOOSE a \in idx : rank(a) = k - 1]

\* ---- the sweep's tests and emitted pairs -----------------------------------
\* while len(stack) > 1 (chain change)
TransitionGuardAll(s) == Len(s) > 0

TransitionGuardKeepTwo(s) == Len(s) > 2

TransitionGuard(s) == Len(s) > 1

\* diagonals.append((points[cur_idx], points[v]))
TransitionDiagonal(pts, cur, v) == <<At(pts, cur), At(pts, v)>>

\* stack.pop(); stack.append(order[i-1]); stack.append(cur_idx)
TransitionStackKeepBottom(ord, k, s) == <<s[1], At(ord, k)>>

TransitionStackNoPop(ord, k, s) == s \o <<At(ord, k - 1), At(ord, k)>>

TransitionStack(ord, k, s) == Pop(s) \o <<At(ord, k - 1), At(ord, k)>>

\* (chain[cur] == "UPPER" and ori > 0) or (chain[cur] == "LOWER" and ori < 0)
PopTestSwapped(label, ori) ==
    \/ label = "UPPER" /\ ori < 0
    \/ label = "LOWER" /\ ori > 0

PopTest(label, ori) ==
    \/ label = "UPPER" /\ ori > 0
    \/ label = "LOWER" /\ ori < 0

\* while len(stack) >= 2 (same chain)
SameChainGuard(s) == Len(s) >= 2

\* diagonals.append((points[cur_idx], points[a])), a = stack[-2]
SameChainDiagonalToPopped(pts, cur, s) == <<At(pts, cur), At(pts, Top(s))>>

SameChainDiagonal(pts, cur, s) == <<At(pts, cur), At(pts, SecondFromTop(s))>>

\* while len(stack) > 1 (last vertex)
FinalGuardAll(s) == Len(s) > 0

FinalGuard(s) == Len(s) > 1

\* diagonals.append((points[last_idx], points[v]))
FinalDiagonal(pts, last, v) == <<At(pts, last), At(pts, v)>>

\* ---- inputs -----------------------------------------------------------------
RECURSIVE ColumnPoints(_, _, _)
\* the points (x, f[x]) with f[x] # -1, by increasing x from x0 to x1
ColumnPoints(f, x0, x1) ==
    IF x0 > x1 THEN <<>>
    ELSE (IF f[x0] = -1 THEN <<>> ELSE <<Point(x0, f[x0])>>)
         \o ColumnPoints(f, x0 + 1, x1)

Reverse(s) == [k \in 1..Len(s) |-> s[Len(s) + 1 - k]]

Rotate(s, r) == [k \in 1..Len(s) |-> s[((k - 1 + r) % Len(s)) + 1]]

\* the vertex loop from a leftmost vertex (xl, yl) along a lower chain to a
\* rightmost vertex (xr, yr) and back along an upper chain; lo and up give
\* each chain's vertex, if any (-1: none), in the columns between xl and xr
MonotoneLoop(xl, yl, xr, yr, lo, up) ==
    <<Point(xl, yl)>> \o ColumnPoints(lo, xl + 1, xr - 1)
    \o <<Point(xr, yr)>> \o Reverse(ColumnPoints(up, xl + 1, xr - 1))

\* b lies on the closed segment from a to c
OnSegment(a, b, c) ==
    /\ (b.x - a.x) * (c.y - a.y) - (b.y - a.y) * (c.x - a.x) = 0
    /\ (IF a.x <= c.x THEN a.x <= b.x /\ b.x <= c.x ELSE c.x <= b.x /\ b.x <= a.x)
    /\ (IF a.y <= c.y THEN a.y <= b.y /\ b.y <= c.y ELSE c.y <= b.y /\ b.y <= a.y)

Sign(v) == IF v = 0 THEN 0 ELSE IF v > 0 THEN 1 ELSE -1

Cross(p, q, r) == (q.x - p.x) * (r.y - p.y) - (q.y - p.y) * (r.x - p.x)

\* the closed segments ab and cd have a common point
SegmentsMeet(a, b, c, d) ==
    \/ /\ Sign(Cross(a, b, c)) * Sign(Cross(a, b, d)) < 0
       /\ Sign(Cross(c, d, a)) * Sign(Cross(c, d, b)) < 0
    \/ OnSegment(a, c, b) \/ OnSegment(a, d, b)
    \/ OnSegment(c, a, d) \/ OnSegment(c, b, d)

Next1(n, k) == (k + 1) % n
Prev1(n, k) == (k + n - 1) % n

\* twice the signed area (shoelace formula): positive for counter-clockwise
RECURSIVE ShoelaceFrom(_, _)
ShoelaceFrom(pts, k) ==
    IF k >= Len(pts) THEN 0
    ELSE LET p == At(pts, k)
             q == At(pts, Next1(Len(pts), k))
         IN  (p.x * q.y - q.x * p.y) + ShoelaceFrom(pts, k + 1)

Area2(pts) == ShoelaceFrom(pts, 0)

DistinctPoints(pts) ==
    \A a, b \in 0..(Len(pts) - 1) : a # b => At(pts, a) # At(pts, b)

\* no two edges share a point other than the common vertex of neighbours
IsSimple(pts) ==
    LET n == Len(pts)
        idx == 0..(n - 1)
    IN  /\ DistinctPoints(pts)
        /\ \A a, b \in idx :
             a < b =>
               LET a2 == Next1(n, a)
                   b2 == Next1(n, b)
               IN  IF a2 = b
                   THEN ~OnSegment(At(pts, a), At(pts, b2), At(pts, b))
                        /\ ~OnSegment(At(pts, b), At(pts, a), At(pts, b2))
                   ELSE IF b2 = a
                   THEN ~OnSegment(At(pts, b), At(pts, a2), At(pts, a))
                        /\ ~OnSegment(At(pts, a), At(pts, b), At(pts, a2))
                   ELSE ~SegmentsMeet(At(pts, a), At(pts, a2),
                                      At(pts, b), At(pts, b2))

\* every vertical line meets the boundary at most twice: no vertical edge,
\* and exactly one vertex where x stops decreasing and starts increasing
IsXMonotone(pts) ==
    LET n == Len(pts)
        idx == 0..(n - 1)
        X(k) == At(pts, k).x
    IN  /\ \A k \in idx : X(k) # X(Next1(n, k))
        /\ Cardinality({k \in idx : X(Prev1(n, k)) > X(k)
                                    /\ X(k) < X(Next1(n, k))}) = 1

IsCCW(pts) == Area2(pts) > 0

ValidPolygon(pts) ==
    /\ Len(pts) >= 3
    /\ IsCCW(pts)
    /\ IsXMonotone(pts)
    /\ IsSimple(pts)

AnyGrid == {Point(x, y) : x \in 0..AnyMaxX, y \in AnyRows}

AnyInputs == UNION {[1..n -> AnyGrid] : n \in 0..AnyMaxN}

\* ---- the program ------------------------------------------------------------
N == Len(points)

\* order[i]
cur_idx == At(order, i)

\* order[-1]
last_idx == At(order, N - 1)

Start(pts) ==
    /\ points = pts
    /\ pc = "find_chains"
    /\ left = 0
    /\ right = 0
    /\ chain = <<>>
    /\ wi = 0
    /\ order = <<>>
    /\ i = 0
    /\ stack = <<>>
    /\ diagonals = <<>>
    /\ iterStack = <<>>
    /\ iterDiags = <<>>

\* the call's argument is a valid polygon (simple, x-monotone, counter-
\* clockwise) of 3..MaxN vertices on the grid, given from any starting vertex
\* (ValidPolygon does not depend on the starting vertex)
Init ==
    \E xl \in 0..MaxX, xr \in 0..MaxX, yl \in 0..MaxY, yr \in 0..MaxY :
        /\ xl < xr
        /\ \E lo \in [(xl + 1)..(xr - 1) -> -1..MaxY],
              up \in [(xl + 1)..(xr - 1) -> -1..MaxY] :
              LET p == MonotoneLoop(xl, yl, xr, yr, lo, up)
              IN  /\ Len(p) <= MaxN
                  /\ ValidPolygon(p)
                  /\ \E r \in 0..(Len(p) - 1) : Start(Rotate(p, r))

\* the call's argument is any list of 0..AnyMaxN points of the small grid
InitAny == \E pts \in AnyInputs : Start(pts)

\* the hexagon of the documented scenario, in the order it is given
Hexagon ==
    <<Point(0, 0), Point(1, 2), Point(3, 3), Point(5, 1), Point(4, -1), Point(2, -2)>>

\* the sub-list of s at the positions in keep, in order
RECURSIVE SubList(_, _, _)
SubList(s, keep, k) ==
    IF k > Len(s) THEN <<>>
    ELSE (IF k \in keep THEN <<s[k]>> ELSE <<>>) \o SubList(s, keep, k + 1)

\* the call's argument is the hexagon or the hexagon reversed, less any of
\* its vertices, from any starting vertex
InitScenario ==
    \E h \in {Hexagon, Reverse(Hexagon)}, keep \in SUBSET (1..Len(Hexagon)) :
        /\ Cardinality(keep) >= 3
        /\ \E r \in 0..(Cardinality(keep) - 1) :
              Start(Rotate(SubList(h, keep, 1), r))

\* find_chains, up to the first walk: min() and max() of an empty range raise
FindChains ==
    /\ pc = "find_chains"
    /\ IF N = 0
       THEN /\ pc' = "error"
            /\ UNCHANGED <<left, right, chain, wi>>
       ELSE /\ left' = ArgMinX(points)
            /\ right' = ArgMaxX(points)
            /\ chain' = [k \in 0..(N - 1) |-> ""]
            /\ wi' = ArgMinX(points)
            /\ pc' = "upper"
    /\ UNCHANGED <<points, order, i, stack, diagonals, iterStack, iterDiags>>

\* one round of the UPPER walk
UpperWalk ==
    /\ pc = "upper"
    /\ chain' = [chain EXCEPT ![wi] = "UPPER"]
    /\ IF wi = right
       THEN /\ wi' = right
            /\ pc' = "lower"
       ELSE /\ wi' = (wi + 1) % N
            /\ pc' = "upper"
    /\ UNCHANGED <<points, left, right, order, i, stack, diagonals,
                   iterStack, iterDiags>>

\* one round of the LOWER walk
LowerWalk ==
    /\ pc = "lower"
    /\ chain' = IF wi # left /\ wi # right
                THEN [chain EXCEPT ![wi] = "LOWER"]
                ELSE chain
    /\ IF wi = left
       THEN /\ wi' = wi
            /\ pc' = "sort"
       ELSE /\ wi' = (wi + 1) % N
            /\ pc' = "lower"
    /\ UNCHANGED <<points, left, right, order, i, stack, diagonals,
                   iterStack, iterDiags>>

\* the sort and the first two pushes: order[1] raises when n < 2
SortAndPush ==
    /\ pc = "sort"
    /\ order' = SweepOrder(points)
    /\ IF N < 2
       THEN /\ pc' = "error"
            /\ UNCHANGED <<stack, i>>
       ELSE /\ stack' = <<At(SweepOrder(points), 0), At(SweepOrder(points), 1)>>
            /\ i' = 2
            /\ pc' = "loop"
    /\ UNCHANGED <<points, left, right, chain, wi, diagonals, iterStack, iterDiags>>

\* for i in range(2, n - 1): the chain test of one iteration, or the loop's end;
\* iterStack and iterDiags keep the stack and the diagonals as this iteration
\* (or the last-vertex step) found them, for the step properties below
LoopTest ==
    /\ pc = "loop"
    /\ IF i < N - 1
       THEN IF stack = <<>>
            THEN pc' = "error"
            ELSE IF chain[cur_idx] # chain[Top(stack)]
                 THEN pc' = "transition"
                 ELSE pc' = "same"
       ELSE pc' = "last"
    /\ iterStack' = stack
    /\ iterDiags' = diagonals
    /\ UNCHANGED <<points, left, right, chain, wi, order, i, stack, diagonals>>

\* chain change: v = stack.pop(); diagonals.append((points[cur_idx], points[v]))
TransitionPop ==
    /\ pc = "transition"
    /\ TransitionGuard(stack)
    /\ diagonals' = Append(diagonals, TransitionDiagonal(points, cur_idx, Top(stack)))
    /\ stack' = Pop(stack)
    /\ UNCHANGED <<points, pc, left, right, chain, wi, order, i, iterStack, iterDiags>>

\* chain change: stack.pop(), then the two pushes
TransitionReset ==
    /\ pc = "transition"
    /\ ~TransitionGuard(stack)
    /\ IF stack = <<>>
       THEN /\ pc' = "error"
            /\ UNCHANGED <<stack, i>>
       ELSE /\ stack' = TransitionStack(order, i, stack)
            /\ i' = i + 1
            /\ pc' = "loop"
    /\ UNCHANGED <<points, left, right, chain, wi, order, diagonals,
                   iterStack, iterDiags>>

\* the test of the same-chain while loop
SameChainTest ==
    /\ SameChainGuard(stack)
    /\ PopTest(chain[cur_idx],
               orientation(At(points, SecondFromTop(stack)),
                           At(points, Top(stack)),
                           At(points, cur_idx)))

\* same chain: stack.pop(); diagonals.append((points[cur_idx], points[a]))
SameChainPop ==
    /\ pc = "same"
    /\ SameChainTest
    /\ diagonals' = Append(diagonals, SameChainDiagonal(points, cur_idx, stack))
    /\ stack' = Pop(stack)
    /\ UNCHANGED <<points, pc, left, right, chain, wi, order, i, iterStack, iterDiags>>

\* same chain: break or loop end, then stack.append(cur_idx)
SameChainPush ==
    /\ pc = "same"
    /\ ~SameChainTest
    /\ stack' = Append(stack, cur_idx)
    /\ i' = i + 1
    /\ pc' = "loop"
    /\ UNCHANGED <<points, left, right, chain, wi, order, diagonals,
                   iterStack, iterDiags>>

\* last vertex: if stack: stack.pop()
LastPop ==
    /\ pc = "last"
    /\ stack' = IF stack # <<>> THEN Pop(stack) ELSE stack
    /\ pc' = "last_loop"
    /\ UNCHANGED <<points, left, right, chain, wi, order, i, diagonals,
                   iterStack, iterDiags>>

\* last vertex: v = stack.pop(); diagonals.append((points[last_idx], points[v]))
LastConnect ==
    /\ pc = "last_loop"
    /\ FinalGuard(stack)
    /\ diagonals' = Append(diagonals, FinalDiagonal(points, last_idx, Top(stack)))
    /\ stack' = Pop(stack)
    /\ UNCHANGED <<points, pc, left, right, chain, wi, order, i, iterStack, iterDiags>>

\* return diagonals
Return ==
    /\ pc = "last_loop"
    /\ ~FinalGuard(stack)
    /\ pc' = "done"
    /\ UNCHANGED <<points, left, right, chain, wi, order, i, stack, diagonals,
                   iterStack, iterDiags>>

Next ==
    \/ FindChains
    \/ UpperWalk
    \/ LowerWalk
    \/ SortAndPush
    \/ LoopTest
    \/ TransitionPop
    \/ TransitionReset
    \/ SameChainPop
    \/ SameChainPush
    \/ LastPop
    \/ LastConnect
    \/ Return

Spec == Init /\ [][Next]_vars

SpecAny == InitAny /\ [][Next]_vars

SpecScenario == InitScenario /\ [][Next]_vars

\* the call runs on its own thread of control: a step that can be taken is taken
FairSpec == Spec /\ WF_vars(Next)

\* ---- geometry of the result ---------------------------------------------------
Indices == 0..(N - 1)

Adjacent(a, b) == b = Next1(N, a) \/ a = Next1(N, b)

\* the polygon's edges and the returned pairs, as sets of two points
PolygonEdges == {{At(points, k), At(points, Next1(N, k))} : k \in Indices}

DiagonalSet == {{diagonals[k][1], diagonals[k][2]} : k \in 1..Len(diagonals)}

\* the triangles that the edges and the returned pairs form
Triangles ==
    LET sides == PolygonEdges \cup DiagonalSet
    IN  {t \in SUBSET {At(points, k) : k \in Indices} :
            /\ Cardinality(t) = 3
            /\ \A p \in t : \A q \in t : p # q => {p, q} \in sides}

\* twice the area of the triangle on the three points of t
TriangleArea2(t) ==
    LET p == CHOOSE v \in t : TRUE
        q == CHOOSE v \in t \ {p} : TRUE
        r == CHOOSE v \in t \ {p, q} : TRUE
        c == Cross(p, q, r)
    IN  IF c < 0 THEN -c ELSE c

RECURSIVE SumArea2(_)
SumArea2(ts) ==
    IF ts = {} THEN 0
    ELSE LET t == CHOOSE u \in ts : TRUE
         IN  TriangleArea2(t) + SumArea2(ts \ {t})

\* two triangles share no interior point: a side of one of them separates them
InteriorsDisjoint(t1, t2) ==
    \E t \in {t1, t2} : \E u \in t : \E v \in t \ {u} :
        \/ /\ \A w \in t1 : Cross(u, v, w) >= 0
           /\ \A w \in t2 : Cross(u, v, w) <= 0
        \/ /\ \A w \in t1 : Cross(u, v, w) <= 0
           /\ \A w \in t2 : Cross(u, v, w) >= 0

\* the open segments pq and rs cross
ProperCross(p, q, r, s) ==
    /\ Sign(Cross(p, q, r)) * Sign(Cross(p, q, s)) < 0
    /\ Sign(Cross(r, s, p)) * Sign(Cross(r, s, q)) < 0

\* the segments pq and rs are different and meet at common endpoints only
MeetAtEndpointsOnly(p, q, r, s) ==
    /\ {p, q} # {r, s}
    /\ ~ProperCross(p, q, r, s)
    /\ OnSegment(p, r, q) => r \in {p, q}
    /\ OnSegment(p, s, q) => s \in {p, q}
    /\ OnSegment(r, p, s) => p \in {r, s}
    /\ OnSegment(r, q, s) => q \in {r, s}

\* seen from vertex a of a counter-clockwise polygon, the point q lies
\* strictly inside the interior angle at a
InCone(a, q) ==
    LET p  == At(points, a)
        p0 == At(points, Prev1(N, a))
        p1 == At(points, Next1(N, a))
    IN  IF Cross(p, p1, p0) >= 0
        THEN Cross(p, q, p0) > 0 /\ Cross(q, p, p1) > 0
        ELSE ~(Cross(p, q, p1) >= 0 /\ Cross(q, p, p0) >= 0)

\* the segment between vertices a and b is a diagonal of the polygon: a and b
\* are not neighbours, it meets no edge other than at a and b, and it leaves
\* a and b into the polygon's interior
IsInternalDiagonal(a, b) ==
    /\ a # b
    /\ ~Adjacent(a, b)
    /\ \A k \in Indices :
         LET k2 == Next1(N, k)
         IN  IF k \in {a, b} \/ k2 \in {a, b}
             THEN /\ k \notin {a, b} =>
                       ~OnSegment(At(points, a), At(points, k), At(points, b))
                  /\ k2 \notin {a, b} =>
                       ~OnSegment(At(points, a), At(points, k2), At(points, b))
             ELSE ~SegmentsMeet(At(points, a), At(points, b),
                                At(points, k), At(points, k2))
    /\ InCone(a, At(points, b))
    /\ InCone(b, At(points, a))

\* ---- C1 -----------------------------------------------------------------------
\* C1: for a valid counter-clockwise x-monotone polygon, the returned pairs
\* and the polygon's edges form exactly n - 2 triangles, none degenerate, no
\* two overlapping, whose areas add up to the polygon's area, and every
\* returned pair joins two vertices that are not neighbours and lies inside
\* the polygon.
C1_Triangulation ==
    pc = "done" =>
        /\ Cardinality(Triangles) = N - 2
        /\ \A t \in Triangles : TriangleArea2(t) > 0
        /\ \A t1 \in Triangles : \A t2 \in Triangles \ {t1} : InteriorsDisjoint(t1, t2)
        /\ SumArea2(Triangles) = Area2(points)
        /\ \A k \in 1..Len(diagonals) :
             \E a \in Indices : \E b \in Indices :
                /\ diagonals[k] = <<At(points, a), At(points, b)>>
                /\ IsInternalDiagonal(a, b)

\* a polygon of five or more vertices has been cut into n - 2 triangles by
\* diagonals within a chain as well as by diagonals between the chains
C1_Witness ==
    /\ pc = "done"
    /\ N >= 5
    /\ Cardinality(Triangles) = N - 2
    /\ \E k \in 1..Len(diagonals) : \E a \in Indices : \E b \in Indices :
          /\ diagonals[k] = <<At(points, a), At(points, b)>>
          /\ chain[a] = chain[b]
    /\ \E k \in 1..Len(diagonals) : \E a \in Indices : \E b \in Indices :
          /\ diagonals[k] = <<At(points, a), At(points, b)>>
          /\ chain[a] # chain[b]

\* ---- C2 -----------------------------------------------------------------------
\* C2: for a valid polygon, two returned diagonals meet at common endpoints
\* only: they never cross.
C2_NoCrossing ==
    pc = "done" =>
        \A j \in 1..Len(diagonals) : \A k \in 1..Len(diagonals) :
            j < k => MeetAtEndpointsOnly(diagonals[j][1], diagonals[j][2],
                                         diagonals[k][1], diagonals[k][2])

\* two returned diagonals with no common endpoint
C2_Witness ==
    /\ pc = "done"
    /\ \E j \in 1..Len(diagonals) : \E k \in 1..Len(diagonals) :
          {diagonals[j][1], diagonals[j][2]} \cap {diagonals[k][1], diagonals[k][2]} = {}

\* ---- C3 -----------------------------------------------------------------------
\* C3: for a valid polygon of n vertices exactly n - 3 diagonals are
\* returned, none for a triangle.
C3_DiagonalCount ==
    pc = "done" =>
        /\ Len(diagonals) = N - 3
        /\ N = 3 => diagonals = <<>>

\* a polygon of more than three vertices has been processed
C3_Witness == pc = "done" /\ N > 3 /\ Len(diagonals) = N - 3

\* ---- C4 -----------------------------------------------------------------------
\* C4: for the hexagon (0,0), (1,2), (3,3), (5,1), (4,-1), (2,-2) in that
\* order, find_chains labels the first four vertices UPPER and the last two
\* LOWER, and exactly the three diagonals (1,2)-(2,-2), (2,-2)-(3,3) and
\* (3,3)-(4,-1) are returned.
C4_Hexagon ==
    points = Hexagon =>
        /\ pc \notin {"find_chains", "upper", "lower"} =>
             chain = [k \in 0..5 |-> IF k <= 3 THEN "UPPER" ELSE "LOWER"]
        /\ pc = "done" =>
             /\ Len(diagonals) = 3
             /\ DiagonalSet = { {Point(1, 2), Point(2, -2)},
                                {Point(2, -2), Point(3, 3)},
                                {Point(3, 3), Point(4, -1)} }

\* the hexagon has been triangulated
C4_Witness == points = Hexagon /\ pc = "done" /\ Len(diagonals) = 3

\* ---- C5 -----------------------------------------------------------------------
\* vertex k has the minimum or the maximum x of the polygon
IsExtreme(k) ==
    \/ \A j \in Indices : At(points, k).x <= At(points, j).x
    \/ \A j \in Indices : At(points, k).x >= At(points, j).x

\* vertex k lies above another part of the boundary: an edge that does not
\* end at k passes strictly below it
OnUpperBoundary(k) ==
    \E j \in Indices :
        LET p == At(points, j)
            q == At(points, Next1(N, j))
            a == IF p.x < q.x THEN p ELSE q
            b == IF p.x < q.x THEN q ELSE p
            v == At(points, k)
        IN  /\ j # k
            /\ Next1(N, j) # k
            /\ a.x < b.x
            /\ a.x <= v.x
            /\ v.x <= b.x
            /\ Cross(a, b, v) > 0

\* C5: for a valid counter-clockwise polygon find_chains labels the two
\* extreme vertices UPPER, every other vertex of the upper boundary UPPER
\* and every other vertex of the lower boundary LOWER.
C5_ChainLabels ==
    pc = "sort" =>
        \A k \in Indices :
            chain[k] = IF IsExtreme(k) \/ OnUpperBoundary(k) THEN "UPPER" ELSE "LOWER"

\* ---- C6 -----------------------------------------------------------------------
\* C6: on a valid polygon the call runs to completion: both walks of
\* find_chains end, no pop or index raises, and the diagonals are returned.
C6_Completes == <>(pc = "done")

\* a call has returned after a walk of find_chains that wrapped around the
\* end of the list and after pops that took the stack down to one element
C6_Witness ==
    /\ pc = "done"
    /\ left > right
    /\ Len(stack) = 1
    /\ Len(diagonals) >= 2

\* ---- C7 -----------------------------------------------------------------------
\* the triple (second-from-top, top, cur) turns left with cur labelled UPPER
\* or right with cur labelled LOWER
EarTurn ==
    LET c == Cross(At(points, SecondFromTop(stack)), At(points, Top(stack)),
                   At(points, cur_idx))
    IN  \/ chain[cur_idx] = "UPPER" /\ c > 0
        \/ chain[cur_idx] = "LOWER" /\ c < 0

\* C7 as stated: in the same-chain step a triple that turns that way pops
\* the top and emits the diagonal (cur, popped element); otherwise, or with
\* one element left, cur is pushed and the step ends.
C7_DiagonalToPopped ==
    [][pc = "same" =>
         IF Len(stack) >= 2 /\ EarTurn
         THEN /\ stack' = Pop(stack)
              /\ diagonals' = Append(diagonals,
                                     <<At(points, cur_idx), At(points, Top(stack))>>)
              /\ pc' = "same"
              /\ i' = i
         ELSE /\ stack' = Append(stack, cur_idx)
              /\ diagonals' = diagonals
              /\ pc' = "loop"
              /\ i' = i + 1]_vars

\* C7 as amended: the diagonal goes from cur to the second-from-top element,
\* the one that is the top after the pop; the rest as stated.
C7_DiagonalToNewTop ==
    [][pc = "same" =>
         IF Len(stack) >= 2 /\ EarTurn
         THEN /\ stack' = Pop(stack)
              /\ diagonals' = Append(diagonals,
                                     <<At(points, cur_idx), At(points, Top(stack'))>>)
              /\ pc' = "same"
              /\ i' = i
         ELSE /\ stack' = Append(stack, cur_idx)
              /\ diagonals' = diagonals
              /\ pc' = "loop"
              /\ i' = i + 1]_vars

\* in a same-chain step a pop has emitted a diagonal to the new top, and the
\* next triple fails the test with two or more elements left
C7_Witness ==
    /\ pc = "same"
    /\ Len(stack) >= 2
    /\ Len(stack) < Len(iterStack)
    /\ diagonals = Append(iterDiags, <<At(points, cur_idx), At(points, Top(stack))>>)
    /\ ~EarTurn

\* ---- C8 -----------------------------------------------------------------------
\* C8: the chain-transition step starts with cur and the top on different
\* chains, emits (cur, v) for every stack element v but the bottom one, from
\* the top down, and leaves the stack [predecessor of cur, cur], where the
\* predecessor in sweep order is the element that was on top.
C8_Transition ==
    [][pc = "transition" /\ pc' # "transition" =>
         /\ chain[cur_idx] # chain[Top(iterStack)]
         /\ pc' = "loop"
         /\ i' = i + 1
         /\ diagonals' = iterDiags \o
                [k \in 1..(Len(iterStack) - 1) |->
                    <<At(points, cur_idx), At(points, iterStack[Len(iterStack) + 1 - k])>>]
         /\ At(order, i - 1) = Top(iterStack)
         /\ stack' = <<Top(iterStack), cur_idx>>]_vars

\* a chain transition over a stack of three or more has just ended
C8_Witness ==
    /\ pc = "loop"
    /\ i >= 3
    /\ Len(iterStack) >= 3
    /\ chain[At(order, i - 1)] # chain[Top(iterStack)]
    /\ Len(diagonals) = Len(iterDiags) + Len(iterStack) - 1
    /\ stack = <<Top(iterStack), At(order, i - 1)>>

\* ---- C9 -----------------------------------------------------------------------
\* C9: when the last vertex is handled on a valid polygon, the stack's top
\* (popped without a diagonal) and its bottom (left on the stack) are the
\* two polygon neighbours of the last sweep-order vertex; the elements
\* between them are not its neighbours and each gets a diagonal to it.
C9_LastVertex ==
    /\ pc = "last" =>
         /\ Len(stack) >= 2
         /\ Adjacent(Top(stack), last_idx)
         /\ Adjacent(stack[1], last_idx)
         /\ \A k \in 2..(Len(stack) - 1) : ~Adjacent(stack[k], last_idx)
    /\ pc = "done" =>
         /\ stack = <<iterStack[1]>>
         /\ diagonals = iterDiags \o
                [k \in 1..(Len(iterStack) - 2) |->
                    <<At(points, last_idx), At(points, iterStack[Len(iterStack) - k])>>]

\* the last vertex found an element between the top and the bottom of the
\* stack and was joined to it
C9_Witness ==
    /\ pc = "done"
    /\ Len(iterStack) >= 3
    /\ Len(diagonals) = Len(iterDiags) + Len(iterStack) - 2

\* ---- C10 ----------------------------------------------------------------------
\* C10: for any list of n >= 3 points, at the head of the main loop with
\* index i (that is, after iteration i - 1) the stack holds at least two
\* elements and len(diagonals) + len(stack) = i; the call returns exactly
\* n - 3 pairs, repeats counted.
C10_CountAnyInput ==
    N >= 3 =>
        /\ pc # "error"
        /\ pc = "loop" =>
             /\ i >= 2
             /\ i <= N - 1
             /\ Len(stack) >= 2
             /\ Len(diagonals) + Len(stack) = i
        /\ pc = "done" => Len(diagonals) = N - 3

\* a list that is no valid polygon (it repeats a point) has been processed
C10_Witness ==
    /\ pc = "done"
    /\ N >= 5
    /\ ~DistinctPoints(points)
    /\ Len(diagonals) = N - 3

====
